---- MODULE Spec2Model ----
(***************************************************************************)
(* A model of pyscisci's PubMed bulk preprocessing                          *)
(* (src/pyscisci/datasource/PubMed.py: PubMed.preprocess and                *)
(* PubMed._save_dataframes, with load_int of src/pyscisci/utils.py).        *)
(*                                                                          *)
(* The state is the input directory (the sorted list of shard documents),   *)
(* the output directory (four partition files per shard index, the          *)
(* vocabulary store and the year index file), and the local variables of    *)
(* one call of preprocess.  A call is cut into steps at its file writes, so *)
(* that the process can be killed between any two of them; a step that      *)
(* raises ends the call.                                                    *)
(*                                                                          *)
(* What is not modelled: the columns of a publication or an author record   *)
(* that no extraction decision depends on (Title, Pages, JournalId, Volume, *)
(* Issue, ISSN, Doi, FirstName, LastName, FullName,                         *)
(* Affiliations).  pandas is taken as the pandas the code was written for   *)
(* (DataFrame.append still exists): a DataFrame built with dtype=int from   *)
(* rows that hold text keeps those cells as they are.                       *)
(***************************************************************************)
EXTENDS Integers, Sequences, FiniteSets, TLC

(***************************************************************************)
(* Bounds of the model.                                                     *)
(***************************************************************************)
NShards == 2        \* shard documents in the input directory
MaxArticles == 2    \* PubmedArticle entries per shard
MaxAuthors == 2     \* Author entries per AuthorList
MaxRefs == 1        \* Reference entries per ReferenceList
MaxTags == 1        \* entries per MeshHeadingList and per ChemicalList

(***************************************************************************)
(* Values.                                                                  *)
(***************************************************************************)
\* Python's None, as load_int returns it; it is no integer a digit text yields.
None == -1
\* The empty string that preprocess puts in place of a reference id.
EmptyStr == -2
\* The local name seq before any loop over an author list has bound it.
Unbound == None

ShardIdx == 0..(NShards - 1)

\* A mapping (a Python dict) with no key.
EmptyMap == [k \in {} |-> 0]

\* d[k] = v of a Python dict.
Put(d, k, v) == [x \in (DOMAIN d) \cup {k} |-> IF x = k THEN v ELSE d[x]]

(***************************************************************************)
(* load_int: int(v), None on a ValueError.  A text is a sequence of decimal *)
(* digits; the empty text is what load_xml_text gives for a missing node.   *)
(***************************************************************************)
RECURSIVE DecVal(_)
DecVal(v) == IF v = <<>> THEN 0
             ELSE 10 * DecVal(SubSeq(v, 1, Len(v) - 1)) + v[Len(v)]

load_int(v) == IF v = <<>> THEN None ELSE DecVal(v)

(***************************************************************************)
(* The input: what one PubmedArticle entry of a shard document holds.       *)
(*   PMID       the text of MedlineCitation/PMID ("" when there is none)    *)
(*   AuthorList whether Article/AuthorList is there, and its Author count   *)
(*   PubDate    whether PubmedData/History is there, whether its            *)
(*              PubMedPubDate is there, and the texts of that element's     *)
(*              Year, Month and Day                                         *)
(*   Mesh, Chem the MeshHeadingList and ChemicalList entries, each with     *)
(*              whether its DescriptorName (NameOfSubstance) element is     *)
(*              there, its UI attribute ("" when it has none) and its name  *)
(*   Refs       the Reference entries of PubmedData/ReferenceList, each     *)
(*              with whether it has an ArticleIdList, the text of that      *)
(*              list's ArticleId of IdType pubmed, and its Citation text    *)
(*   Absent     which of the elements Article, Journal (of Article) and     *)
(*              JournalIssue (of Journal) the entry lacks                   *)
(***************************************************************************)
NoAuthorList == [present |-> FALSE, n |-> 0]
AuthorListOf(n) == [present |-> TRUE, n |-> n]
\* No History; a History without PubMedPubDate; a PubMedPubDate of year y,
\* month m, day d; one of year y, on the 7th of May.
NoHistory ==
    [History |-> FALSE, present |-> FALSE, Year |-> <<>>, Month |-> <<>>, Day |-> <<>>]
NoPubDate ==
    [History |-> TRUE, present |-> FALSE, Year |-> <<>>, Month |-> <<>>, Day |-> <<>>]
PubDateOn(y, m, d) ==
    [History |-> TRUE, present |-> TRUE, Year |-> y, Month |-> m, Day |-> d]
PubDateOf(y) == PubDateOn(y, <<5>>, <<7>>)

Article(pmid, al, pd, mesh, chem, refs) ==
    [PMID |-> pmid, AuthorList |-> al, PubDate |-> pd,
     Mesh |-> mesh, Chem |-> chem, Refs |-> refs, Absent |-> {}]

\* The entry a without the element node.
Without(a, node) == [a EXCEPT !.Absent = @ \cup {node}]

\* find() gives None for an element that is not there, and a .find or .attrib
\* on None raises AttributeError: article.find (line 164), journal.find (171),
\* journal.find("JournalIssue").find (172), term.find("DescriptorName").attrib
\* (219), chemical.find("NameOfSubstance").attrib (227).
FindOnNone(a) ==
    \/ a.Absent # {}
    \/ \E k \in 1..Len(a.Mesh) : ~a.Mesh[k].element
    \/ \E k \in 1..Len(a.Chem) : ~a.Chem[k].element

\* The sequences over S of length at most n.
SeqUpTo(S, n) == UNION {[1..k -> S] : k \in 0..n}

(***************************************************************************)
(* The records preprocess builds.                                           *)
(***************************************************************************)
\* A blank record whose unknown date is all zeros.
BlankZeroDate(PublicationId) ==
    [PublicationId |-> PublicationId, Year |-> 0, Month |-> 0, Day |-> 0,
     TeamSize |-> 0]

\* _blank_pubmed_publication: Year 0, Month 1, Day 1, TeamSize 0.
blank_pubmed_publication(PublicationId) ==
    [PublicationId |-> PublicationId, Year |-> 0, Month |-> 1, Day |-> 1,
     TeamSize |-> 0]

\* history = ...find("PubmedData/History"); pdate = history.find('PubMedPubDate'):
\* the record takes load_int of the Year, Month and Day of a PubMedPubDate that
\* is there, and keeps what it has otherwise.
DateOf(pub_record, pd) ==
    IF pd.History /\ pd.present
    THEN [pub_record EXCEPT !.Year = load_int(pd.Year),
                            !.Month = load_int(pd.Month),
                            !.Day = load_int(pd.Day)]
    ELSE pub_record

\* _blank_pubmed_author, with PublicationId and AuthorSequence set.
AuthorRecord(id, s) == [PublicationId |-> id, AuthorSequence |-> s]

\* The author records of one AuthorList: enumerate() counts from 0 and the
\* record takes seq + 1.
AuthorRows(id, n) == [s \in 1..n |-> AuthorRecord(id, (s - 1) + 1)]

\* The value of the local seq after the loop over n Author entries: the loop
\* binds it only when it runs at least once.
SeqAfter(seq, n) == IF n > 0 THEN n - 1 ELSE seq

\* The field rows when every entry gets one, with or without a UI.
TagRowsAll(id, tags) == [k \in 1..Len(tags) |-> <<id, tags[k].UI>>]

\* The field rows of a list of vocabulary entries: one per entry with a UI.
RECURSIVE TagRows(_, _)
TagRows(id, tags) ==
    IF tags = <<>> THEN <<>>
    ELSE (IF Head(tags).UI # "" THEN << <<id, Head(tags).UI>> >> ELSE <<>>)
         \o TagRows(id, Tail(tags))

\* fieldinfo when an id that is already there keeps its first name and type.
RECURSIVE TagInfoKeepsFirst(_, _, _)
TagInfoKeepsFirst(fieldinfo, tags, type) ==
    IF tags = <<>> THEN fieldinfo
    ELSE TagInfoKeepsFirst(IF Head(tags).UI # "" /\ Head(tags).UI \notin DOMAIN fieldinfo
                           THEN Put(fieldinfo, Head(tags).UI, <<Head(tags).name, type>>)
                           ELSE fieldinfo,
                           Tail(tags), type)

\* fieldinfo after the entries of one list: fieldinfo[ui] = [name, type], the
\* later entry overwriting the earlier.
RECURSIVE TagInfo(_, _, _)
TagInfo(fieldinfo, tags, type) ==
    IF tags = <<>> THEN fieldinfo
    ELSE TagInfo(IF Head(tags).UI # ""
                 THEN Put(fieldinfo, Head(tags).UI, <<Head(tags).name, type>>)
                 ELSE fieldinfo,
                 Tail(tags), type)

\* The id of a reference: load_int of the pubmed ArticleId when the reference
\* has an ArticleIdList, the empty string otherwise.
RefPmid(ref) == IF ref.hasIdList THEN load_int(ref.pubmed) ELSE EmptyStr

\* The rows appended to pub2ref_df: [PublicationId, pmid, citation].
RefRows(id, refs) ==
    [k \in 1..Len(refs) |-> <<id, RefPmid(refs[k]), refs[k].Citation>>]

\* pub2year when every record gets an entry, whatever its year.
YearEntryAlways(pub2year, PublicationId, Year) == Put(pub2year, PublicationId, Year)

\* if pub_record['Year'] > 0: pub2year[PublicationId] = pub_record['Year']
YearEntry(pub2year, PublicationId, Year) ==
    IF Year > 0 THEN Put(pub2year, PublicationId, Year) ELSE pub2year

(***************************************************************************)
(* The body of the loop over the articles of a shard.  st holds the locals  *)
(* of preprocess; raised says that the body raised (the call then ends).    *)
(*   - an element that the code reaches through without a test is absent;   *)
(*   - Year is None when PubMedPubDate has no Year text, and None > 0       *)
(*     raises TypeError;                                                    *)
(*   - seq + 1 raises UnboundLocalError when no author loop has run yet.    *)
(***************************************************************************)
ExtractArticle(st, a) ==
    LET PublicationId == load_int(a.PMID)
        dated == DateOf(blank_pubmed_publication(PublicationId), a.PubDate)
        Year == dated.Year
        seq == IF a.AuthorList.present THEN SeqAfter(st.seq, a.AuthorList.n)
               ELSE st.seq
        TeamSize == IF a.AuthorList.present THEN seq + 1 ELSE dated.TeamSize
        raises == \/ FindOnNone(a)
                  \/ Year = None
                  \/ a.AuthorList.present /\ seq = Unbound
    IN  IF st.raised \/ raises THEN [st EXCEPT !.raised = TRUE]
        ELSE [publication_df |-> Append(st.publication_df,
                                        [dated EXCEPT !.TeamSize = TeamSize]),
              paa_df |-> st.paa_df \o
                         (IF a.AuthorList.present
                          THEN AuthorRows(PublicationId, a.AuthorList.n) ELSE <<>>),
              pub2field_df |-> st.pub2field_df \o TagRows(PublicationId, a.Mesh)
                                               \o TagRows(PublicationId, a.Chem),
              pub2ref_df |-> st.pub2ref_df \o RefRows(PublicationId, a.Refs),
              pub2year |-> YearEntry(st.pub2year, PublicationId, Year),
              fieldinfo |-> TagInfo(TagInfo(st.fieldinfo, a.Mesh, "mesh"),
                                    a.Chem, "chem"),
              seq |-> seq,
              raised |-> FALSE]

RECURSIVE ExtractArticles(_, _)
ExtractArticles(st, articles) ==
    IF articles = <<>> THEN st
    ELSE ExtractArticles(ExtractArticle(st, Head(articles)), Tail(articles))

\* One shard: the four collections start empty, the accumulators and seq go on.
ExtractShard(p2y, finfo, sq, shard) ==
    ExtractArticles([publication_df |-> <<>>, paa_df |-> <<>>,
                     pub2field_df |-> <<>>, pub2ref_df |-> <<>>,
                     pub2year |-> p2y, fieldinfo |-> finfo, seq |-> sq,
                     raised |-> FALSE], shard)

(***************************************************************************)
(* _save_dataframes: what each of its four blocks does to its collection    *)
(* before to_hdf writes it.  A file is [exists, rows].                      *)
(***************************************************************************)
NoFile == [exists |-> FALSE, rows |-> <<>>]
FileOf(rows) == [exists |-> TRUE, rows |-> rows]

\* pd.DataFrame(publication_df)['PublicationId'] is a KeyError when there is
\* no record, and astype(int) raises on a None.
PubFrameRaises(publication_df) ==
    \/ publication_df = <<>>
    \/ \E k \in 1..Len(publication_df) :
          \/ publication_df[k].PublicationId = None
          \/ publication_df[k].Year = None
          \/ publication_df[k].Month = None
          \/ publication_df[k].Day = None
          \/ publication_df[k].TeamSize = None

\* The frame with drop_duplicates(subset = 'PublicationId').
RECURSIVE PubFrameDropDuplicates(_)
PubFrameDropDuplicates(publication_df) ==
    IF publication_df = <<>> THEN <<>>
    ELSE LET front == SubSeq(publication_df, 1, Len(publication_df) - 1)
             last == publication_df[Len(publication_df)]
         IN  IF \E k \in 1..Len(front) : front[k].PublicationId = last.PublicationId
             THEN PubFrameDropDuplicates(front)
             ELSE Append(PubFrameDropDuplicates(front), last)

\* The records become the rows, in their order.
PubFrame(publication_df) == publication_df

\* pd.DataFrame(paa_df)['AuthorSequence'] is a KeyError when there is no record.
PaaFrameRaises(paa_df) == paa_df = <<>>

PaaFrame(paa_df) == paa_df

\* The columns are named by position.
FieldFrame(pub2field_df) ==
    [k \in 1..Len(pub2field_df) |->
        [PublicationId |-> pub2field_df[k][1], FieldId |-> pub2field_df[k][2]]]

RefFrame(pub2ref_df) ==
    [k \in 1..Len(pub2ref_df) |->
        [CitedPublicationId |-> pub2ref_df[k][1],
         CitingPublicationId |-> pub2ref_df[k][2],
         Citation |-> pub2ref_df[k][3]]]

\* The vocabulary table: each key of fieldinfo is put in front of its
\* [name, type] and the lists become the rows FieldId, FieldName, FieldType.
\* The rows are kept as a set: nothing here depends on their order.
FieldInfoFrame(fieldinfo) ==
    {[FieldId |-> ui, FieldName |-> fieldinfo[ui][1], FieldType |-> fieldinfo[ui][2]] :
        ui \in DOMAIN fieldinfo}

(***************************************************************************)
(* State.                                                                   *)
(***************************************************************************)
VARIABLES
    xmlfiles,          \* the sorted shard documents, by index
    pub_hdf,           \* publication{i}.hdf, by index
    paa_hdf,           \* publicationauthoraffiliation{i}.hdf
    pub2field_hdf,     \* pub2field{i}.hdf
    pub2ref_hdf,       \* pub2ref{i}.hdf
    fieldinfo_hdf,     \* fieldinfo.hdf
    pub2year_json,     \* pub2year.json.gz
    pc,                \* where the call of preprocess stands
    rewrite_existing,  \* the argument of the call
    xml_file_name,     \* locals of preprocess: the position in xmlfiles of the
                       \* file the loop is at (NShards once it is over),
    ifile,             \* the counter that names the partitions,
    publication_df, paa_df, pub2field_df, pub2ref_df,
    pub2year, fieldinfo, seq,
    inflight,          \* history: the shard in flight when the last call died,
                       \*          or None
    prevExtracted,     \* history: the indices the call before has extracted
    skipped,           \* history: the indices the latest call has skipped
    extracted,         \* history: the indices the latest call has extracted
    persisted,         \* history: how many times the latest call has written
                       \*          the year index file and the vocabulary store
    returned           \* the latest call of a loader: which one, whether it
                       \* has raised, the table it has returned

\* What a call of a loader gives; no loader has been called yet.
Returned(call, raised, df) == [call |-> call, raised |-> raised, df |-> df]
NoCall == Returned("", FALSE, <<>>)

\* A call that has written neither global file.
NonePersisted == [pub2year |-> 0, fieldinfo |-> 0]

files == <<pub_hdf, paa_hdf, pub2field_hdf, pub2ref_hdf, fieldinfo_hdf, pub2year_json>>
partitions == <<pub_hdf, paa_hdf, pub2field_hdf, pub2ref_hdf>>
collections == <<publication_df, paa_df, pub2field_df, pub2ref_df>>
accumulators == <<pub2year, fieldinfo>>
history == <<inflight, prevExtracted, skipped, extracted>>
vars == <<xmlfiles, files, pc, rewrite_existing, xml_file_name, ifile, collections,
          accumulators, seq, history, persisted, returned>>

Running == {"loop", "save_pub", "save_paa", "save_field", "save_ref", "save_pub2year"}
\* A call has returned, was killed, or has raised (while it extracted a shard,
\* or inside _save_dataframes).
Stopped == {"idle", "done", "killed", "raised_extract", "raised_save"}

\* No call of preprocess is running: its locals are gone.
NoLocals ==
    /\ xml_file_name = 0 /\ ifile = 0
    /\ publication_df = <<>> /\ paa_df = <<>>
    /\ pub2field_df = <<>> /\ pub2ref_df = <<>>
    /\ pub2year = EmptyMap /\ fieldinfo = EmptyMap
    /\ seq = Unbound

\* The locals as a call finds them (ifile = 0, pub2year = {}, fieldinfo = {})
\* and as a call that has ended leaves them.
ResetLocals ==
    /\ xml_file_name' = 0 /\ ifile' = 0
    /\ publication_df' = <<>> /\ paa_df' = <<>>
    /\ pub2field_df' = <<>> /\ pub2ref_df' = <<>>
    /\ pub2year' = EmptyMap /\ fieldinfo' = EmptyMap
    /\ seq' = Unbound

\* The call ends in state p; i is the shard it was working on, if any.
End(p, i) ==
    /\ pc' = p
    /\ inflight' = i
    /\ ResetLocals

InitWith(inputs) ==
    /\ xmlfiles \in inputs
    /\ pub_hdf = [i \in ShardIdx |-> NoFile]
    /\ paa_hdf = [i \in ShardIdx |-> NoFile]
    /\ pub2field_hdf = [i \in ShardIdx |-> NoFile]
    /\ pub2ref_hdf = [i \in ShardIdx |-> NoFile]
    /\ fieldinfo_hdf = NoFile
    /\ pub2year_json = NoFile
    /\ pc = "idle"
    /\ rewrite_existing = FALSE
    /\ NoLocals
    /\ inflight = None
    /\ prevExtracted = {}
    /\ skipped = {}
    /\ extracted = {}
    /\ persisted = NonePersisted
    /\ returned = NoCall

(***************************************************************************)
(* preprocess, step by step.                                                *)
(***************************************************************************)
\* The blocks in another order: the authorship partition before the
\* publication partition.
WriteOrderPaaFirst == <<"save_paa", "save_pub", "save_field", "save_ref">>

\* The four blocks of _save_dataframes, in the order of its text.
WriteOrder == <<"save_pub", "save_paa", "save_field", "save_ref">>

\* The block that follows block b.
BlockAfter(b) == WriteOrder[(CHOOSE k \in 1..Len(WriteOrder) : WriteOrder[k] = b) + 1]

\* The test as parse_publications makes it: publication{i}.hdf is looked for in
\* the authorship directory, where no call puts it.
AlreadyParsedWrongDir(i) == ~rewrite_existing /\ FALSE

\* The test made on the authorship partition instead.
AlreadyParsedPaa(i) == ~rewrite_existing /\ paa_hdf[i].exists

\* "check if the xml file was already parsed"
AlreadyParsed(i) == ~rewrite_existing /\ pub_hdf[i].exists

\* A call of preprocess begins: the accumulators are empty, ifile is 0.
Start ==
    /\ \E r \in BOOLEAN : rewrite_existing' = r
    /\ pc' = "loop"
    /\ ResetLocals
    /\ skipped' = {} /\ extracted' = {}
    /\ prevExtracted' = extracted
    /\ persisted' = NonePersisted
    /\ UNCHANGED <<returned, xmlfiles, files, inflight>>

\* preprocess is called, for the first time or after an earlier call has ended.
StartRun == pc \in Stopped /\ Start

\* preprocess is called on an output directory that no call has touched.
FirstRun == pc = "idle" /\ Start

\* The loop reaches a shard that is already parsed: ifile += 1; continue.
Skip ==
    /\ pc = "loop" /\ xml_file_name < NShards
    /\ AlreadyParsed(ifile)
    /\ ifile' = ifile + 1
    /\ xml_file_name' = xml_file_name + 1
    /\ skipped' = skipped \cup {xml_file_name}
    /\ UNCHANGED <<returned, persisted, xmlfiles, files, pc, rewrite_existing, collections,
                   accumulators, seq, inflight, prevExtracted, extracted>>

\* The loop reaches a shard to parse: its articles are extracted into the four
\* collections and the accumulators.
Extract ==
    /\ pc = "loop" /\ xml_file_name < NShards
    /\ ~AlreadyParsed(ifile)
    /\ extracted' = extracted \cup {xml_file_name}
    /\ LET st == ExtractShard(pub2year, fieldinfo, seq, xmlfiles[xml_file_name])
       IN  IF st.raised
           THEN End("raised_extract", ifile)
           ELSE /\ publication_df' = st.publication_df
                /\ paa_df' = st.paa_df
                /\ pub2field_df' = st.pub2field_df
                /\ pub2ref_df' = st.pub2ref_df
                /\ pub2year' = st.pub2year
                /\ fieldinfo' = st.fieldinfo
                /\ seq' = st.seq
                /\ pc' = WriteOrder[1]
                /\ UNCHANGED <<xml_file_name, ifile, inflight>>
    /\ UNCHANGED <<returned, persisted, xmlfiles, files, rewrite_existing, prevExtracted, skipped>>

\* _save_dataframes, first block: the publication partition.
SavePub ==
    /\ pc = "save_pub"
    /\ IF PubFrameRaises(publication_df)
       THEN End("raised_save", ifile) /\ UNCHANGED pub_hdf
       ELSE /\ pub_hdf' = [pub_hdf EXCEPT ![ifile] = FileOf(PubFrame(publication_df))]
            /\ pc' = BlockAfter("save_pub")
            /\ UNCHANGED <<xml_file_name, ifile, collections, accumulators, seq,
                           inflight>>
    /\ UNCHANGED <<returned, persisted, xmlfiles, paa_hdf, pub2field_hdf, pub2ref_hdf, fieldinfo_hdf,
                   pub2year_json, rewrite_existing, prevExtracted, skipped, extracted>>

\* second block: the authorship partition.
SavePaa ==
    /\ pc = "save_paa"
    /\ IF PaaFrameRaises(paa_df)
       THEN End("raised_save", ifile) /\ UNCHANGED paa_hdf
       ELSE /\ paa_hdf' = [paa_hdf EXCEPT ![ifile] = FileOf(PaaFrame(paa_df))]
            /\ pc' = BlockAfter("save_paa")
            /\ UNCHANGED <<xml_file_name, ifile, collections, accumulators, seq,
                           inflight>>
    /\ UNCHANGED <<returned, persisted, xmlfiles, pub_hdf, pub2field_hdf, pub2ref_hdf, fieldinfo_hdf,
                   pub2year_json, rewrite_existing, prevExtracted, skipped, extracted>>

\* third block: the field-tag partition.
SaveField ==
    /\ pc = "save_field"
    /\ pub2field_hdf' = [pub2field_hdf EXCEPT ![ifile] = FileOf(FieldFrame(pub2field_df))]
    /\ pc' = BlockAfter("save_field")
    /\ UNCHANGED <<returned, persisted, xmlfiles, pub_hdf, paa_hdf, pub2ref_hdf,
                   fieldinfo_hdf, pub2year_json, rewrite_existing, xml_file_name,
                   ifile, collections, accumulators, seq, history>>

\* The fourth block as parse_references ends it: the partition is written and
\* the counter stays where it is.
SaveRefKeepsIndex ==
    /\ pc = "save_ref"
    /\ pub2ref_hdf' = [pub2ref_hdf EXCEPT ![ifile] = FileOf(RefFrame(pub2ref_df))]
    /\ xml_file_name' = xml_file_name + 1
    /\ pc' = "loop"
    /\ UNCHANGED <<returned, persisted, xmlfiles, pub_hdf, paa_hdf, pub2field_hdf, fieldinfo_hdf,
                   pub2year_json, rewrite_existing, ifile, collections,
                   accumulators, seq, history>>

\* The fourth block when the year index file is written inside the loop, after
\* every shard.
SaveRefAndPub2Year ==
    /\ pc = "save_ref"
    /\ pub2ref_hdf' = [pub2ref_hdf EXCEPT ![ifile] = FileOf(RefFrame(pub2ref_df))]
    /\ pub2year_json' = FileOf(pub2year)
    /\ persisted' = [persisted EXCEPT !.pub2year = @ + 1]
    /\ ifile' = ifile + 1
    /\ xml_file_name' = xml_file_name + 1
    /\ pc' = "loop"
    /\ UNCHANGED <<returned, xmlfiles, pub_hdf, paa_hdf, pub2field_hdf, fieldinfo_hdf,
                   rewrite_existing, collections, accumulators, seq, history>>

\* fourth block: the citation partition; _save_dataframes returns and ifile += 1.
SaveRef ==
    /\ pc = "save_ref"
    /\ pub2ref_hdf' = [pub2ref_hdf EXCEPT ![ifile] = FileOf(RefFrame(pub2ref_df))]
    /\ ifile' = ifile + 1
    /\ xml_file_name' = xml_file_name + 1
    /\ pc' = "loop"
    /\ UNCHANGED <<returned, persisted, xmlfiles, pub_hdf, paa_hdf, pub2field_hdf, fieldinfo_hdf,
                   pub2year_json, rewrite_existing, collections,
                   accumulators, seq, history>>

\* The vocabulary store written after the loop whatever the call asked for.
SaveFieldInfoAlways ==
    /\ pc = "loop" /\ xml_file_name = NShards
    /\ fieldinfo_hdf' = FileOf(FieldInfoFrame(fieldinfo))
    /\ persisted' = [persisted EXCEPT !.fieldinfo = @ + 1]
    /\ pc' = "save_pub2year"
    /\ UNCHANGED <<returned, xmlfiles, partitions, pub2year_json, rewrite_existing,
                   xml_file_name, ifile, collections, accumulators, seq, history>>

\* After the loop, "if rewriting": the vocabulary store.
SaveFieldInfo ==
    /\ pc = "loop" /\ xml_file_name = NShards
    /\ rewrite_existing
    /\ fieldinfo_hdf' = FileOf(FieldInfoFrame(fieldinfo))
    /\ persisted' = [persisted EXCEPT !.fieldinfo = @ + 1]
    /\ pc' = "save_pub2year"
    /\ UNCHANGED <<returned, xmlfiles, partitions, pub2year_json, rewrite_existing,
                   xml_file_name, ifile, collections, accumulators, seq, history>>

\* The year index file; preprocess returns.
SavePub2Year ==
    /\ \/ pc = "save_pub2year"
       \/ pc = "loop" /\ xml_file_name = NShards /\ ~rewrite_existing
    /\ pub2year_json' = FileOf(pub2year)
    /\ persisted' = [persisted EXCEPT !.pub2year = @ + 1]
    /\ End("done", None)
    /\ UNCHANGED <<returned, xmlfiles, partitions, fieldinfo_hdf, rewrite_existing,
                   prevExtracted, skipped, extracted>>

\* A shard is in flight once its extraction has begun and until its last
\* partition is written.
Saving == {"save_pub", "save_paa", "save_field", "save_ref"}

\* The process is killed.
Kill ==
    /\ pc \in Running
    /\ End("killed", IF pc \in Saving THEN ifile ELSE None)
    /\ UNCHANGED <<returned, persisted, xmlfiles, files, rewrite_existing, prevExtracted, skipped,
                   extracted>>

(***************************************************************************)
(* The loaders: the last lines of parse_publications, parse_references and  *)
(* parse_publicationauthoraffiliation, which a call with preprocess = False *)
(* goes to directly.  A path below path2database is a sequence of names, a  *)
(* name a sequence of pieces of text; "*" in a pattern stands for any       *)
(* pieces.                                                                  *)
(***************************************************************************)
\* The directories of the partitions, as BibDataBase names them.
path2pub_df == "publication"
path2paa_df == "publicationauthoraffiliation"
path2pub2ref_df == "pub2ref"

\* 'publication{}.hdf'.format(ifile) and the like.
PartitionName(stem, i) == <<stem, ToString(i), ".hdf">>

\* What there is below path2database: the directories that preprocess makes
\* and the partitions that it has written, each with its rows.
OutputTree ==
    {[path |-> << <<d>> >>, rows |-> <<>>] :
        d \in {path2pub_df, path2paa_df, path2pub2ref_df}}
    \cup {[path |-> << <<path2pub_df>>, PartitionName("publication", i) >>,
           rows |-> pub_hdf[i].rows] : i \in {j \in ShardIdx : pub_hdf[j].exists}}
    \cup {[path |-> << <<path2paa_df>>, PartitionName("publicationauthoraffiliation", i) >>,
           rows |-> paa_hdf[i].rows] : i \in {j \in ShardIdx : paa_hdf[j].exists}}
    \cup {[path |-> << <<path2pub2ref_df>>, PartitionName("pub2ref", i) >>,
           rows |-> pub2ref_hdf[i].rows] : i \in {j \in ShardIdx : pub2ref_hdf[j].exists}}

\* os.path.join(self.path2database, dir) + stem + '*.hdf': the text is put
\* right after the name of the directory, with no separator.
PatternOf(dir, stem) == << <<dir, stem, "*", ".hdf">> >>

\* fnmatch of one name against one name of a pattern.
NameMatches(name, pat) ==
    IF \E k \in 1..Len(pat) : pat[k] = "*"
    THEN LET star == CHOOSE k \in 1..Len(pat) : pat[k] = "*"
             after == Len(pat) - star
         IN  /\ Len(name) >= Len(pat) - 1
             /\ SubSeq(name, 1, star - 1) = SubSeq(pat, 1, star - 1)
             /\ SubSeq(name, Len(name) - after + 1, Len(name)) =
                    SubSeq(pat, star + 1, Len(pat))
    ELSE name = pat

\* glob.glob: the entries whose path matches, name by name.
Glob(pattern) ==
    {e \in OutputTree :
        /\ Len(e.path) = Len(pattern)
        /\ \A c \in 1..Len(pattern) : NameMatches(e.path[c], pattern[c])}

\* glob.glob returns the matches in an order of its own: any order.
Orders(S) ==
    {f \in [1..Cardinality(S) -> S] :
        \A a, b \in 1..Cardinality(S) : a # b => f[a] # f[b]}

\* df = df.append(pd.read_hdf(f), ignore_index = True) for each f in turn.
RECURSIVE Concat(_)
Concat(files_list) ==
    IF files_list = <<>> THEN <<>>
    ELSE Head(files_list).rows \o Concat(Tail(files_list))

\* The loop of parse_publications runs over paa_files_list, a name that the
\* function never binds: NameError, whatever glob has found.
parse_publications ==
    /\ pc \in Stopped
    /\ \E pub_files_list \in Orders(Glob(PatternOf(path2pub_df, "publication"))) :
          returned' = Returned("parse_publications", TRUE, <<>>)
    /\ UNCHANGED <<xmlfiles, files, pc, rewrite_existing, xml_file_name, ifile,
                   collections, accumulators, seq, history, persisted>>

\* The body of the loop of parse_references names ignore_indexTrue, which is
\* not bound: NameError as soon as there is a file to read.
parse_references ==
    /\ pc \in Stopped
    /\ \E pub2ref_files \in Orders(Glob(PatternOf(path2pub2ref_df, "pub2ref"))) :
          returned' = Returned("parse_references", pub2ref_files # <<>>, <<>>)
    /\ UNCHANGED <<xmlfiles, files, pc, rewrite_existing, xml_file_name, ifile,
                   collections, accumulators, seq, history, persisted>>

parse_publicationauthoraffiliation ==
    /\ pc \in Stopped
    /\ \E paa_files_list \in
            Orders(Glob(PatternOf(path2paa_df, "publicationauthoraffiliation"))) :
          returned' = Returned("parse_publicationauthoraffiliation", FALSE,
                               Concat(paa_files_list))
    /\ UNCHANGED <<xmlfiles, files, pc, rewrite_existing, xml_file_name, ifile,
                   collections, accumulators, seq, history, persisted>>

(***************************************************************************)
(* parse_references with preprocess = True: a loop of its own over the      *)
(* sorted shard documents that extracts the citations only, writes one      *)
(* pub2ref partition per shard it extracts, and then goes on to the loader. *)
(***************************************************************************)

\* The rows appended to pub2ref_df by the loop over the articles:
\* [PublicationId, pmid, citation] for every Reference of every article.
RECURSIVE ReferenceRows(_)
ReferenceRows(articles) ==
    IF articles = <<>> THEN <<>>
    ELSE RefRows(load_int(Head(articles).PMID), Head(articles).Refs)
            \o ReferenceRows(Tail(articles))

\* pd.DataFrame(pub2ref_df, columns = [...], dtype=int): every row holds the
\* text of a citation, which is no integer.  Whether the constructor then
\* raises or keeps the column as it is depends on the pandas at hand.
IntFrameMayRaise(rows) == rows # <<>>

\* parse_references(preprocess=True) is called: ifile = 0.
RefsStart ==
    /\ pc \in Stopped
    /\ \E r \in BOOLEAN : rewrite_existing' = r
    /\ pc' = "refs_loop"
    /\ ResetLocals
    /\ skipped' = {} /\ extracted' = {}
    /\ prevExtracted' = extracted
    /\ persisted' = NonePersisted
    /\ UNCHANGED <<returned, xmlfiles, files, inflight>>

\* "check if the xml file was already parsed": pub2ref{ifile}.hdf is there.
RefsAlreadyParsed(i) == ~rewrite_existing /\ pub2ref_hdf[i].exists

\* ifile += 1; continue.
RefsSkip ==
    /\ pc = "refs_loop" /\ xml_file_name < NShards
    /\ RefsAlreadyParsed(ifile)
    /\ ifile' = ifile + 1
    /\ xml_file_name' = xml_file_name + 1
    /\ skipped' = skipped \cup {xml_file_name}
    /\ UNCHANGED <<returned, persisted, xmlfiles, files, pc, rewrite_existing,
                   collections, accumulators, seq, inflight, prevExtracted,
                   extracted>>

\* The citations of the shard are collected.
RefsExtract ==
    /\ pc = "refs_loop" /\ xml_file_name < NShards
    /\ ~RefsAlreadyParsed(ifile)
    /\ extracted' = extracted \cup {xml_file_name}
    /\ pub2ref_df' = ReferenceRows(xmlfiles[xml_file_name])
    /\ pc' = "refs_save"
    /\ UNCHANGED <<returned, persisted, xmlfiles, files, rewrite_existing,
                   xml_file_name, ifile, publication_df, paa_df, pub2field_df,
                   accumulators, seq, inflight, prevExtracted, skipped>>

\* "save file": pub2ref{ifile}.hdf is written and the loop goes to the next
\* document; nothing adds to ifile here.
RefsSave ==
    /\ pc = "refs_save"
    /\ \/ /\ pub2ref_hdf' = [pub2ref_hdf EXCEPT ![ifile] = FileOf(RefFrame(pub2ref_df))]
          /\ xml_file_name' = xml_file_name + 1
          /\ pc' = "refs_loop"
          /\ UNCHANGED <<ifile, collections, accumulators, seq, inflight>>
       \/ /\ IntFrameMayRaise(pub2ref_df)
          /\ End("raised_save", ifile)
          /\ UNCHANGED pub2ref_hdf
    /\ UNCHANGED <<returned, persisted, xmlfiles, pub_hdf, paa_hdf, pub2field_hdf,
                   fieldinfo_hdf, pub2year_json, rewrite_existing, prevExtracted,
                   skipped, extracted>>

\* The loop is over: the loader part, and the call returns or raises.
RefsLoad ==
    /\ pc = "refs_loop" /\ xml_file_name = NShards
    /\ \E pub2ref_files \in Orders(Glob(PatternOf(path2pub2ref_df, "pub2ref"))) :
          returned' = Returned("parse_references", pub2ref_files # <<>>, <<>>)
    /\ End("done", None)
    /\ UNCHANGED <<persisted, xmlfiles, files, rewrite_existing, prevExtracted,
                   skipped, extracted>>

(***************************************************************************)
(* Inputs.                                                                  *)
(***************************************************************************)
\* Vocabulary entries: descriptor terms with id D1, with id D2, without an id
\* and without a DescriptorName; chemicals with id D1, without an id and without
\* a NameOfSubstance.
MeshD1 == [element |-> TRUE, UI |-> "D1", name |-> "n1"]
MeshD2 == [element |-> TRUE, UI |-> "D2", name |-> "n4"]
MeshNoUI == [element |-> TRUE, UI |-> "", name |-> "n3"]
MeshNoDescriptor == [element |-> FALSE, UI |-> "", name |-> ""]
ChemD1 == [element |-> TRUE, UI |-> "D1", name |-> "n2"]
ChemNoUI == [element |-> TRUE, UI |-> "", name |-> "n5"]
ChemNoSubstance == [element |-> FALSE, UI |-> "", name |-> ""]
MeshTerms == {MeshD1, MeshD2, MeshNoUI, MeshNoDescriptor}
Chemicals == {ChemD1, ChemNoUI, ChemNoSubstance}

\* Reference entries: without an ArticleIdList, with one that has no pubmed
\* ArticleId, and with a pubmed ArticleId 50.
RefNoIdList == [hasIdList |-> FALSE, pubmed |-> <<>>, Citation |-> "c1"]
RefNoPubmed == [hasIdList |-> TRUE, pubmed |-> <<>>, Citation |-> "c2"]
RefPubmed == [hasIdList |-> TRUE, pubmed |-> <<5, 0>>, Citation |-> "c3"]
References == {RefNoIdList, RefNoPubmed, RefPubmed}

\* Shard documents of the runs that are killed and resumed: one that holds no
\* article, two ordinary ones, one whose article has no AuthorList, one whose
\* article has an AuthorList without Author, one whose article has no PMID.
ShardEmpty == <<>>
ShardOne ==
    <<Article(<<1>>, AuthorListOf(1), PubDateOf(<<1, 9>>), <<MeshD1>>, <<>>, <<>>)>>
ShardTwo ==
    <<Article(<<2>>, AuthorListOf(2), PubDateOf(<<2, 0>>), <<MeshNoUI>>, <<ChemD1>>,
              <<RefPubmed>>)>>
ShardNoAuthorList ==
    <<Article(<<3>>, NoAuthorList, PubDateOf(<<2, 1>>), <<>>, <<>>, <<RefNoIdList>>)>>
ShardNoAuthor ==
    <<Article(<<4>>, AuthorListOf(0), NoPubDate, <<>>, <<>>, <<>>)>>
ShardNoPmid ==
    <<Article(<<>>, AuthorListOf(1), NoPubDate, <<>>, <<>>, <<>>)>>

LifeShards == {ShardEmpty, ShardOne, ShardTwo, ShardNoAuthorList, ShardNoAuthor,
               ShardNoPmid}

LifeInputs == [ShardIdx -> LifeShards]

\* Shard documents of the extraction runs: every sequence of up to MaxArticles
\* articles that differ in their PMID and author list, in their references, in
\* having a PMID, in their PMID and date, or in the elements they lack; and
\* every shard of one article with some vocabulary entries.
AuthorArticles ==
    {Article(p, al, NoPubDate, <<>>, <<>>, <<>>) :
        p \in {<<1>>, <<2>>},
        al \in {NoAuthorList} \cup {AuthorListOf(n) : n \in 0..MaxAuthors}}

RefArticles ==
    {Article(<<1, 0, 0>>, AuthorListOf(1), NoPubDate, <<>>, <<>>, refs) :
        refs \in SeqUpTo(References, MaxRefs)}

PmidArticles ==
    {Article(p, AuthorListOf(1), NoPubDate, <<>>, <<>>, <<>>) :
        p \in {<<>>, <<1>>, <<2>>}}

\* Dates: no PubMedPubDate, one without a Year text, one of year 0, one of
\* year 20.
PubDates == {NoPubDate, PubDateOf(<<>>), PubDateOf(<<0>>), PubDateOf(<<2, 0>>)}

DateArticles ==
    {Article(p, AuthorListOf(1), pd, <<>>, <<>>, <<>>) :
        p \in {<<1>>, <<2>>}, pd \in PubDates}

\* Entries without a date (no History, no PubMedPubDate), with a date that has
\* no Month text, and with a whole date.
SentinelArticles ==
    {Article(<<3>>, AuthorListOf(1), pd, <<>>, <<>>, <<>>) :
        pd \in {NoHistory, NoPubDate, PubDateOn(<<2, 0>>, <<>>, <<7>>), PubDateOf(<<2, 0>>)}}

\* Entries that lack Article, Journal or JournalIssue, and one that lacks none.
NodeArticles ==
    LET a == Article(<<1>>, AuthorListOf(1), PubDateOf(<<2, 0>>), <<>>, <<>>, <<>>)
    IN  {a} \cup {Without(a, node) : node \in {"Article", "Journal", "JournalIssue"}}

\* One entry with up to MaxTags descriptor terms and up to MaxTags chemicals.
TagShards ==
    {<<Article(<<1>>, AuthorListOf(1), NoPubDate, mesh, chem, <<>>)>> :
        mesh \in SeqUpTo(MeshTerms, MaxTags), chem \in SeqUpTo(Chemicals, MaxTags)}

RichShards == SeqUpTo(AuthorArticles, MaxArticles)
              \cup SeqUpTo(RefArticles, MaxArticles)
              \cup SeqUpTo(PmidArticles, MaxArticles)
              \cup SeqUpTo(DateArticles, MaxArticles)
              \cup SeqUpTo(NodeArticles, MaxArticles)
              \cup SeqUpTo(SentinelArticles, MaxArticles)
              \cup TagShards

\* Shard documents of the output directories that the loaders read: one or two
\* ordinary articles.
LoadShards == {ShardOne, ShardTwo, ShardOne \o ShardTwo, ShardTwo \o ShardOne}

\* The first document is any of these, the others are ordinary ones.
ExtractInputs ==
    {[i \in ShardIdx |-> IF i = 0 THEN r ELSE t[i]] :
        r \in RichShards, t \in [ShardIdx \ {0} -> {ShardOne, ShardTwo}]}

(***************************************************************************)
(* Specifications.                                                          *)
(***************************************************************************)
\* Calls of preprocess, one after the other, any of which may be killed.
Init == InitWith(LifeInputs)

Next ==
    \/ StartRun
    \/ Skip
    \/ Extract
    \/ SavePub
    \/ SavePaa
    \/ SaveField
    \/ SaveRef
    \/ SaveFieldInfo
    \/ SavePub2Year
    \/ Kill

Spec == Init /\ [][Next]_vars

\* One call of preprocess on an empty output directory, left to run.
InitExtract == InitWith(ExtractInputs)

NextExtract ==
    \/ FirstRun
    \/ Extract
    \/ SavePub
    \/ SavePaa
    \/ SaveField
    \/ SaveRef
    \/ SaveFieldInfo
    \/ SavePub2Year

SpecExtract == InitExtract /\ [][NextExtract]_vars

\* The loaders, called on an output directory as calls of preprocess leave it:
\* with all four partitions of the first n shards, for some n.
InitLoad ==
    /\ xmlfiles \in [ShardIdx -> LoadShards]
    /\ \E n \in 0..NShards :
          LET st(i) == ExtractShard(EmptyMap, EmptyMap, Unbound, xmlfiles[i])
              Part(i, rows) == IF i < n THEN FileOf(rows) ELSE NoFile
          IN  /\ pub_hdf = [i \in ShardIdx |-> Part(i, PubFrame(st(i).publication_df))]
              /\ paa_hdf = [i \in ShardIdx |-> Part(i, PaaFrame(st(i).paa_df))]
              /\ pub2field_hdf = [i \in ShardIdx |-> Part(i, FieldFrame(st(i).pub2field_df))]
              /\ pub2ref_hdf = [i \in ShardIdx |-> Part(i, RefFrame(st(i).pub2ref_df))]
    /\ fieldinfo_hdf = NoFile
    /\ pub2year_json = NoFile
    /\ pc = "idle"
    /\ rewrite_existing = FALSE
    /\ NoLocals
    /\ inflight = None
    /\ prevExtracted = {}
    /\ skipped = {}
    /\ extracted = {}
    /\ persisted = NonePersisted
    /\ returned = NoCall

NextLoad ==
    \/ parse_publications
    \/ parse_references
    \/ parse_publicationauthoraffiliation

SpecLoad == InitLoad /\ [][NextLoad]_vars

\* Calls of parse_references(preprocess=True), one after the other, on an
\* output directory that is empty at first.
InitRefs == InitWith(LifeInputs)

NextRefs ==
    \/ RefsStart
    \/ RefsSkip
    \/ RefsExtract
    \/ RefsSave
    \/ RefsLoad

SpecRefs == InitRefs /\ [][NextRefs]_vars

(***************************************************************************)
(* Properties of the killed and resumed runs (Spec).                        *)
(***************************************************************************)
\* All four partitions of index i are there.
Complete(i) ==
    /\ pub_hdf[i].exists /\ paa_hdf[i].exists
    /\ pub2field_hdf[i].exists /\ pub2ref_hdf[i].exists

FullyProcessed == \A i \in ShardIdx : Complete(i)

C2_RerunWritesNoPartition ==
    [][(FullyProcessed /\ ~rewrite_existing') =>
          /\ UNCHANGED partitions
          /\ extracted' \subseteq extracted
          /\ pc' \notin Saving
      ]_vars

\* C2 witness: a call without the rewrite flag has returned after it skipped
\* every shard of a fully processed set.
C2_Witness ==
    /\ pc = "done" /\ ~rewrite_existing
    /\ FullyProcessed
    /\ skipped = ShardIdx

\* C3: a call without the rewrite flag extracts index i only if publication{i}.hdf
\* is missing while it is there for every index before i (it goes on from the
\* first missing one, having skipped all before it); it never extracts a shard
\* whose write had completed; and of the shards the call before it extracted, it
\* extracts again only the one in flight when that call died.
C3_Resumable ==
    [][(pc = "loop" /\ ~rewrite_existing /\ ifile \in extracted' \ extracted) =>
          /\ ~pub_hdf[ifile].exists
          /\ \A j \in 0..(ifile - 1) : pub_hdf[j].exists
          /\ extracted = {} => skipped = 0..(ifile - 1)
          /\ ~Complete(ifile)
          /\ ifile \in prevExtracted => ifile = inflight
      ]_vars

\* C3 witness: a resumed call has skipped a shard and extracted again the shard
\* that was in flight when the call before it died.
C3_Witness ==
    /\ pc \in Running /\ ~rewrite_existing
    /\ skipped # {}
    /\ inflight \in extracted \cap prevExtracted

\* Index i has its publication partition and none of the other three, and no
\* call is writing them.
PartialWrite(i) ==
    /\ pub_hdf[i].exists
    /\ ~paa_hdf[i].exists /\ ~pub2field_hdf[i].exists /\ ~pub2ref_hdf[i].exists
    /\ ~(pc \in Saving /\ ifile = i)

\* C4: when index i is left with its publication partition only, no step of a
\* call without the rewrite flag extracts shard i or writes one of its three
\* missing partitions.
C4_PartialWriteGap ==
    [][\A i \in ShardIdx :
          (PartialWrite(i) /\ ~rewrite_existing') =>
              /\ PartialWrite(i)'
              /\ i \notin extracted'
              /\ pub_hdf'[i] = pub_hdf[i]
      ]_vars

\* C4 witness: a call without the rewrite flag has returned, having skipped a
\* shard that has its publication partition only.
C4_Witness ==
    /\ pc = "done" /\ ~rewrite_existing
    /\ \E i \in skipped : PartialWrite(i)

(***************************************************************************)
(* Properties of the extraction of a shard and of its write (SpecExtract).  *)
(***************************************************************************)
\* The PublicationId of the k-th article entry of a shard.
IdOf(shard, k) == load_int(shard[k].PMID)

\* The article entries of a shard carry pairwise distinct ids.
DistinctIds(shard) ==
    \A k, m \in 1..Len(shard) : k # m => IdOf(shard, k) # IdOf(shard, m)

\* The indices of the authorship records of publication id.
AuthorsOf(id) == {m \in 1..Len(paa_df) : paa_df[m].PublicationId = id}

\* C5: in every publication row written, TeamSize is the number of authorship
\* records of the shard with its PublicationId: 0 without an AuthorList, the
\* number of Author entries with one (no Author entry: 0).  Stated for shards
\* whose entries carry distinct ids, when the publication partition has just
\* been written.
C5_TeamSizeCountsAuthors ==
    (pc = "save_paa" /\ DistinctIds(xmlfiles[ifile])) =>
        \A k \in 1..Len(pub_hdf[ifile].rows) :
            LET row == pub_hdf[ifile].rows[k]
            IN  /\ row.TeamSize = Cardinality(AuthorsOf(row.PublicationId))
                /\ row.TeamSize = xmlfiles[ifile][k].AuthorList.n

\* C6: for every publication extracted, the AuthorSequence values of its
\* authorship records are exactly 1..TeamSize, increasing in the order of the
\* records.
C6_AuthorSequenceContiguous ==
    (pc = "save_paa" /\ DistinctIds(xmlfiles[ifile])) =>
        \A k \in 1..Len(publication_df) :
            LET rec == publication_df[k]
                own == AuthorsOf(rec.PublicationId)
            IN  /\ {paa_df[m].AuthorSequence : m \in own} = 1..rec.TeamSize
                /\ \A m, n \in own :
                      m < n => paa_df[m].AuthorSequence < paa_df[n].AuthorSequence

\* C7: for every reference of an article P with a pubmed ArticleId Q, the
\* citation partition written for the shard has a row with CitingPublicationId
\* P and CitedPublicationId Q.
C7_CitingAndCitedColumns ==
    \A i \in ShardIdx :
        pub2ref_hdf[i].exists =>
            \A k \in 1..Len(xmlfiles[i]) : \A r \in 1..Len(xmlfiles[i][k].Refs) :
                LET ref == xmlfiles[i][k].Refs[r]
                IN  (ref.hasIdList /\ ref.pubmed # <<>>) =>
                        \E n \in 1..Len(pub2ref_hdf[i].rows) :
                            LET row == pub2ref_hdf[i].rows[n]
                            IN  /\ row.CitingPublicationId = IdOf(xmlfiles[i], k)
                                /\ row.CitedPublicationId = load_int(ref.pubmed)

\* C8: for every reference without an ArticleIdList, the citation partition has
\* a row with an empty CitedPublicationId, the citing article's id as
\* CitingPublicationId and the reference's text, which is not empty, as Citation.
C8_UnresolvedCitationRow ==
    \A i \in ShardIdx :
        pub2ref_hdf[i].exists =>
            \A k \in 1..Len(xmlfiles[i]) : \A r \in 1..Len(xmlfiles[i][k].Refs) :
                LET ref == xmlfiles[i][k].Refs[r]
                IN  ~ref.hasIdList =>
                        \E n \in 1..Len(pub2ref_hdf[i].rows) :
                            LET row == pub2ref_hdf[i].rows[n]
                            IN  /\ row.CitedPublicationId = EmptyStr
                                /\ row.CitingPublicationId = IdOf(xmlfiles[i], k)
                                /\ row.Citation = ref.Citation
                                /\ row.Citation # ""

\* The publication partition of index i has one row per article entry of shard
\* i, in document order.
OneRowPerArticle(i) ==
    /\ Len(pub_hdf[i].rows) = Len(xmlfiles[i])
    /\ \A k \in 1..Len(xmlfiles[i]) :
          pub_hdf[i].rows[k].PublicationId = IdOf(xmlfiles[i], k)

\* No two rows of the publication partition of index i have the same id.
UniqueIds(i) ==
    \A k, m \in 1..Len(pub_hdf[i].rows) :
        k # m => pub_hdf[i].rows[k].PublicationId # pub_hdf[i].rows[m].PublicationId

SaveEnded(i) ==
    /\ i \in extracted
    /\ ~(pc \in Saving /\ ifile = i)
    /\ ~(pc = "raised_extract" /\ inflight = i)

\* C10: when the write of a shard has ended, its four partitions are all there,
\* whatever the collections are; stated for shards with at least one article
\* entry, all with an id, so with a publication collection that is not empty.
C10_OnePartitionPerKind ==
    \A i \in ShardIdx :
        (/\ SaveEnded(i)
         /\ xmlfiles[i] # <<>>
         /\ \A k \in 1..Len(xmlfiles[i]) : IdOf(xmlfiles[i], k) # None)
        => Complete(i)

(***************************************************************************)
(* Properties of the shard index and of the accumulators (Spec).            *)
(***************************************************************************)
\* The shards the running call has gone past: skipped, or extracted and saved.
Visited == (skipped \cup extracted) \ (IF pc \in Saving THEN {xml_file_name} ELSE {})

\* C11: the shard index is positional.  Whenever the loop stands at a file or
\* saves one, ifile is the number of files it has gone past, and these are the
\* files before it in sorted order, skipped or processed; a step that writes a
\* partition of index i is made while the loop is at the i-th file, and a
\* publication partition of index i holds the ids of the articles of the i-th
\* file.  So no two files of a directory ever write the same partition.
C11_PositionalIndex ==
    [][/\ (pc' \in {"loop"} \cup Saving) =>
            /\ ifile' = Cardinality(Visited')
            /\ Visited' = 0..(xml_file_name' - 1)
       /\ \A i \in ShardIdx :
            /\ (\/ pub_hdf'[i] # pub_hdf[i] \/ paa_hdf'[i] # paa_hdf[i]
                \/ pub2field_hdf'[i] # pub2field_hdf[i]
                \/ pub2ref_hdf'[i] # pub2ref_hdf[i]) =>
                    (pc \in Saving /\ i = xml_file_name /\ i = ifile)
            /\ pub_hdf'[i].exists =>
                    /\ Len(pub_hdf'[i].rows) = Len(xmlfiles[i])
                    /\ \A k \in 1..Len(xmlfiles[i]) :
                          pub_hdf'[i].rows[k].PublicationId = IdOf(xmlfiles[i], k)
      ]_vars

\* A call has skipped the first file and has extracted and saved the second,
\* a different document.
C11_Witness ==
    /\ pc = "loop" /\ ifile = 2
    /\ 0 \in skipped /\ 1 \in extracted
    /\ xmlfiles[0] # xmlfiles[1]
    /\ Complete(1)

\* The vocabulary observations of one list of entries, in document order:
\* <<id, name, element>> for every entry that carries an id.
RECURSIVE TagObs(_, _)
TagObs(tags, element) ==
    IF tags = <<>> THEN <<>>
    ELSE (IF Head(tags).UI # "" THEN << <<Head(tags).UI, Head(tags).name, element>> >>
          ELSE <<>>)
         \o TagObs(Tail(tags), element)

\* The observations of a shard: article by article, the descriptor terms of an
\* article before its chemicals.
RECURSIVE ShardObs(_)
ShardObs(shard) ==
    IF shard = <<>> THEN <<>>
    ELSE TagObs(Head(shard).Mesh, "DescriptorName")
         \o TagObs(Head(shard).Chem, "NameOfSubstance")
         \o ShardObs(Tail(shard))

\* The observations of the running call so far: those of the shards it has
\* extracted, in the order of the loop.
RECURSIVE ObsFrom(_)
ObsFrom(i) ==
    IF i >= NShards THEN <<>>
    ELSE (IF i \in extracted THEN ShardObs(xmlfiles[i]) ELSE <<>>) \o ObsFrom(i + 1)

\* The most recent observation of id ui in obs is its k-th.
MostRecent(obs, k) ==
    \A m \in (k + 1)..Len(obs) : obs[m][1] # obs[k][1]

\* The type of an entry is the one of the element it was observed from.
SameKind(type, element) == (type = "mesh") <=> (element = "DescriptorName")

\* C12: while a call runs, the accumulator holds exactly the ids observed so
\* far, each with the name and the kind of its most recent observation; and
\* the vocabulary store a call has just written holds exactly one row per
\* observed id, with the name and kind of the observation made last (so an id
\* seen with two names in two shards has the name of the later shard).
C12_LastObservationWins ==
    LET obs == ObsFrom(0)
    IN  /\ pc \in Running =>
            /\ DOMAIN fieldinfo = {obs[k][1] : k \in 1..Len(obs)}
            /\ \A k \in 1..Len(obs) :
                  MostRecent(obs, k) =>
                      /\ fieldinfo[obs[k][1]][1] = obs[k][2]
                      /\ SameKind(fieldinfo[obs[k][1]][2], obs[k][3])
        /\ pc = "save_pub2year" =>
            /\ fieldinfo_hdf.exists
            /\ \A k \in 1..Len(obs) :
                  LET entries == {r \in fieldinfo_hdf.rows : r.FieldId = obs[k][1]}
                  IN  /\ Cardinality(entries) = 1
                      /\ MostRecent(obs, k) =>
                            \A r \in entries : /\ r.FieldName = obs[k][2]
                                                /\ SameKind(r.FieldType, obs[k][3])

\* A call has written the vocabulary store after it has observed one id with
\* two names in two shards.
C12_Witness ==
    /\ pc = "save_pub2year"
    /\ \E i, j \in extracted :
          /\ i < j
          /\ \E k \in 1..Len(ShardObs(xmlfiles[i])), m \in 1..Len(ShardObs(xmlfiles[j])) :
                /\ ShardObs(xmlfiles[i])[k][1] = ShardObs(xmlfiles[j])[m][1]
                /\ ShardObs(xmlfiles[i])[k][2] # ShardObs(xmlfiles[j])[m][2]

\* The FieldType the vocabulary is to give an entry observed from an element.
FieldTypeOf(element) == IF element = "DescriptorName" THEN "mesh" ELSE "chemical"

\* C13: every entry of the vocabulary, in the accumulator and in the store,
\* has FieldType mesh or chemical: mesh when its most recent observation is a
\* descriptor term, chemical when it is a chemical substance.
C13_FieldTypeMeshOrChemical ==
    LET obs == ObsFrom(0)
    IN  /\ \A ui \in DOMAIN fieldinfo : fieldinfo[ui][2] \in {"mesh", "chemical"}
        /\ fieldinfo_hdf.exists =>
              \A r \in fieldinfo_hdf.rows : r.FieldType \in {"mesh", "chemical"}
        /\ pc \in Running =>
              \A k \in 1..Len(obs) :
                  MostRecent(obs, k) =>
                      fieldinfo[obs[k][1]][2] = FieldTypeOf(obs[k][3])

\* C14: the vocabulary store is written only by a call that rewrites.  A step
\* that changes the store is the step after the last shard of a call with
\* rewrite_existing true, and it writes the vocabulary the call has gathered;
\* no other step of any call touches the store.  A call with rewrite_existing
\* true that returns has made that step once: it returns from the state the
\* step leads to, which nothing else leads to.
C14_StoreOnlyOnRewrite ==
    [][/\ fieldinfo_hdf' # fieldinfo_hdf =>
            /\ rewrite_existing
            /\ pc = "loop" /\ xml_file_name = NShards
            /\ Visited = ShardIdx
       /\ pc' = "save_pub2year" =>
            /\ pc = "loop" /\ rewrite_existing
            /\ fieldinfo_hdf' = FileOf(FieldInfoFrame(fieldinfo))
       /\ pc = "save_pub2year" => fieldinfo_hdf' = fieldinfo_hdf
       /\ pc' = "done" =>
            IF rewrite_existing
            THEN pc = "save_pub2year" /\ fieldinfo_hdf'.exists
            ELSE pc = "loop"
      ]_vars

\* A call without rewrite_existing has returned and the store that an earlier
\* call has written, with an entry in it, is there.
C14_Witness ==
    /\ pc = "done" /\ ~rewrite_existing
    /\ skipped = ShardIdx
    /\ fieldinfo_hdf.exists
    /\ fieldinfo_hdf.rows # {}

\* The resolved year of an article entry: the Year of its PubMedPubDate, the
\* sentinel 0 when it has no such date.
YearOf(a) == IF a.PubDate.present THEN load_int(a.PubDate.Year) ELSE 0

\* C15: when a call of preprocess has returned, the year index file holds an
\* entry, with the resolved year, for every article entry of every shard of
\* the input directory whose resolved year is positive, whether the call has
\* extracted the shard or has skipped it.
C15_YearIndexCoversAllShards ==
    pc = "done" =>
        /\ pub2year_json.exists
        /\ \A i \in ShardIdx :
              \A k \in 1..Len(xmlfiles[i]) :
                  YearOf(xmlfiles[i][k]) > 0 =>
                      /\ IdOf(xmlfiles[i], k) \in DOMAIN pub2year_json.rows
                      /\ pub2year_json.rows[IdOf(xmlfiles[i], k)] = YearOf(xmlfiles[i][k])

(***************************************************************************)
(* Properties of the year index and of the extraction of irregular          *)
(* articles (SpecExtract).                                                  *)
(***************************************************************************)
\* Some article entry that the call has extracted carries id with a positive
\* resolved year.
HasPositiveYear(id) ==
    \E i \in extracted :
        \E k \in 1..Len(xmlfiles[i]) :
            IdOf(xmlfiles[i], k) = id /\ YearOf(xmlfiles[i][k]) > 0

\* C16: while a call runs, every value of the year accumulator is a positive
\* year, and the accumulator has an entry for an id only if an extracted
\* article of that id has a positive resolved year: a publication whose year
\* is the sentinel 0 has none.  The year index file holds positive years only.
C16_YearIndexPositive ==
    /\ pc \in Running =>
          /\ \A id \in DOMAIN pub2year : pub2year[id] > 0 /\ HasPositiveYear(id)
          /\ \A i \in extracted :
                \A k \in 1..Len(xmlfiles[i]) :
                    (YearOf(xmlfiles[i][k]) = 0 /\ ~HasPositiveYear(IdOf(xmlfiles[i], k)))
                        => IdOf(xmlfiles[i], k) \notin DOMAIN pub2year
    /\ pub2year_json.exists =>
          \A id \in DOMAIN pub2year_json.rows : pub2year_json.rows[id] > 0

\* A shard is extracted that holds an article whose PubMedPubDate has Year 0
\* and an article with a positive year.
C16_Witness ==
    /\ pc = "save_pub" /\ ifile = 0
    /\ pub2year # EmptyMap
    /\ \E k \in 1..Len(xmlfiles[0]) :
          xmlfiles[0][k].PubDate.present /\ YearOf(xmlfiles[0][k]) = 0

\* The entry is irregular only in that optional elements are absent: its
\* AuthorList, when there, has an Author, and its PubMedPubDate, when there,
\* has a Year text.
OnlyAbsences(a) ==
    /\ a.AuthorList.present => a.AuthorList.n > 0
    /\ a.PubDate.present => a.PubDate.Year # <<>>

\* C17: the extraction of an article entry that lacks any of its optional
\* elements never raises, and the absent fields take their defaults: no call
\* ends by an exception in the extraction of a shard whose entries are
\* irregular in absent elements only, and the record of an entry without an
\* AuthorList has TeamSize 0, that of an entry without a date has Year 0.
C17_ExtractionNeverRaises ==
    /\ \A i \in ShardIdx :
          (pc = "raised_extract" /\ inflight = i) =>
              \E k \in 1..Len(xmlfiles[i]) : ~OnlyAbsences(xmlfiles[i][k])
    /\ pc \in Saving =>
          /\ Len(publication_df) = Len(xmlfiles[ifile])
          /\ \A k \in 1..Len(publication_df) :
                /\ ~xmlfiles[ifile][k].AuthorList.present => publication_df[k].TeamSize = 0
                /\ ~xmlfiles[ifile][k].PubDate.present => publication_df[k].Year = 0

\* The positions in a shard of the entries without a PMID.
Idless(shard) == {k \in 1..Len(shard) : shard[k].PMID = <<>>}

\* C18: an article entry without a PMID still gets exactly one publication
\* row, of PublicationId 0.  For a shard i with such entries whose other
\* entries are regular: the record collected for each of them has id 0, the
\* save of the shard does not raise, and the publication partition, once
\* written, has one row per entry, the row of an entry without PMID with id 0.
C18_IdlessArticleGetsZero ==
    \A i \in ShardIdx :
        (Idless(xmlfiles[i]) # {} /\ \A k \in 1..Len(xmlfiles[i]) : OnlyAbsences(xmlfiles[i][k]))
        => /\ (pc \in Saving /\ ifile = i) =>
                /\ Len(publication_df) = Len(xmlfiles[i])
                /\ \A k \in Idless(xmlfiles[i]) : publication_df[k].PublicationId = 0
           /\ ~(pc = "raised_save" /\ inflight = i)
           /\ pub_hdf[i].exists =>
                /\ Len(pub_hdf[i].rows) = Len(xmlfiles[i])
                /\ \A k \in Idless(xmlfiles[i]) : pub_hdf[i].rows[k].PublicationId = 0

\* The field-tag rows a shard is to give: for each article entry in turn, one
\* row of its id for each of its observations.
RECURSIVE FieldRowsOf(_)
FieldRowsOf(shard) ==
    IF shard = <<>> THEN <<>>
    ELSE LET obs == TagObs(Head(shard).Mesh, "DescriptorName")
                    \o TagObs(Head(shard).Chem, "NameOfSubstance")
         IN  [k \in 1..Len(obs) |->
                 [PublicationId |-> load_int(Head(shard).PMID), FieldId |-> obs[k][1]]]
             \o FieldRowsOf(Tail(shard))

\* C19: a field-tag row is emitted only for a vocabulary entry with an id.
\* The rows collected for a shard, and the rows of its field-tag partition, are
\* one row (PublicationId, FieldId) for each descriptor term and each chemical
\* that carries an id, in document order, and none for an entry without an id,
\* whatever the other entries of the article are; each id of a row is a key of
\* the vocabulary accumulator, and the empty id never is.
C19_TagOnlyWithId ==
    /\ pc \in Saving =>
          /\ FieldFrame(pub2field_df) = FieldRowsOf(xmlfiles[ifile])
          /\ \A k \in 1..Len(pub2field_df) : pub2field_df[k][2] \in DOMAIN fieldinfo
          /\ "" \notin DOMAIN fieldinfo
    /\ \A i \in ShardIdx :
          pub2field_hdf[i].exists => pub2field_hdf[i].rows = FieldRowsOf(xmlfiles[i])

\* The field-tag partition is written of a shard whose article has a
\* vocabulary entry with an id and, of the other kind, one without.
C19_Witness ==
    /\ pc = "save_ref" /\ ifile = 0
    /\ Len(xmlfiles[0]) = 1
    /\ LET a == xmlfiles[0][1]
       IN  \/ /\ \E k \in 1..Len(a.Mesh) : a.Mesh[k].UI # ""
              /\ \E k \in 1..Len(a.Chem) : a.Chem[k].UI = ""
           \/ /\ \E k \in 1..Len(a.Mesh) : a.Mesh[k].UI = ""
              /\ \E k \in 1..Len(a.Chem) : a.Chem[k].UI # ""

(***************************************************************************)
(* Properties of the loaders (SpecLoad).                                    *)
(***************************************************************************)
\* The rows of the partitions i, i + 1, ... of a kind that are there, those of
\* a lower index first, each partition's rows in their order.
RECURSIVE AscendingFrom(_, _)
AscendingFrom(hdf, i) ==
    IF i >= NShards THEN <<>>
    ELSE (IF hdf[i].exists THEN hdf[i].rows ELSE <<>>) \o AscendingFrom(hdf, i + 1)

\* The partitions that a loader call is to read.
PartitionsOf(call) ==
    IF call = "parse_publications" THEN pub_hdf
    ELSE IF call = "parse_references" THEN pub2ref_hdf
    ELSE paa_hdf

\* C20: a loader finds every partition of its kind and returns their rows,
\* concatenated in ascending order of the shard index, the rows of a partition
\* in their order and none dropped: the table has as many rows as the
\* partitions have together.
C20_LoaderConcatenatesAscending ==
    returned # NoCall =>
        /\ ~returned.raised
        /\ returned.df = AscendingFrom(PartitionsOf(returned.call), 0)

(***************************************************************************)
(* Properties of the order of the writes (Spec).                            *)
(***************************************************************************)
\* The latest call has gone past every shard of the input directory.
AllVisited == skipped \cup extracted = ShardIdx /\ inflight = None

\* C21: the accumulators are persisted once, after the loop.  A step that
\* changes the year index file or the vocabulary store, or that counts as a
\* write of one of them, is made by a call that stands after its loop, every
\* shard visited; a call writes each of the two at most once; and a call that
\* has ended before it had visited every shard has written neither.
C21_PersistedOnceAfterLoop ==
    [][/\ (\/ pub2year_json' # pub2year_json \/ fieldinfo_hdf' # fieldinfo_hdf
           \/ persisted' # persisted /\ pc \in Running) =>
            /\ xml_file_name = NShards
            /\ Visited = ShardIdx
       /\ persisted'.pub2year <= 1 /\ persisted'.fieldinfo <= 1
       /\ (pc' \in Stopped /\ ~AllVisited') => persisted' = NonePersisted
       /\ pc' = "done" => persisted'.pub2year = 1
      ]_vars

\* A call was killed while it saved its second shard, after an earlier call
\* had returned: it has written neither file, and the year index file of the
\* earlier call is there.
C21_Witness ==
    /\ pc = "killed" /\ inflight = 1
    /\ persisted = NonePersisted
    /\ pub2year_json.exists

\* The publication partition of index i holds one row per article entry of
\* the i-th shard, with the ids of its entries.
FreshPublications(i) ==
    /\ Len(pub_hdf[i].rows) = Len(xmlfiles[i])
    /\ \A k \in 1..Len(xmlfiles[i]) :
          pub_hdf[i].rows[k].PublicationId = IdOf(xmlfiles[i], k)

\* C22: a call with rewrite_existing true skips no shard, and when it has
\* ended other than by a kill it has extracted every shard of the input
\* directory and all four partitions of every index are there, written from
\* the records of that shard.
C22_RewriteOverwritesAll ==
    rewrite_existing =>
        /\ pc \in Running => skipped = {}
        /\ pc \in {"done", "raised_extract", "raised_save"} =>
              /\ skipped = {}
              /\ extracted = ShardIdx
              /\ \A i \in ShardIdx : Complete(i) /\ FreshPublications(i)

(***************************************************************************)
(* Properties of the dates (SpecExtract).                                   *)
(***************************************************************************)
\* The positions in a shard of the entries without a PubMedPubDate.
Undated(shard) ==
    {k \in 1..Len(shard) : ~shard[k].PubDate.History \/ ~shard[k].PubDate.present}

\* C23: an article entry with no History, or with a History that has no
\* PubMedPubDate, keeps the sentinel date: the record collected for it and its
\* row of the publication partition have Year 0, Month 1 and Day 1, and, no
\* other extracted entry of its id having a positive year, the year
\* accumulator has no entry for its id.
C23_SentinelDate ==
    /\ pc \in Saving =>
          \A k \in Undated(xmlfiles[ifile]) :
              /\ publication_df[k].Year = 0
              /\ publication_df[k].Month = 1
              /\ publication_df[k].Day = 1
              /\ ~HasPositiveYear(IdOf(xmlfiles[ifile], k)) =>
                    IdOf(xmlfiles[ifile], k) \notin DOMAIN pub2year
    /\ \A i \in ShardIdx :
          pub_hdf[i].exists =>
              \A k \in Undated(xmlfiles[i]) :
                  /\ pub_hdf[i].rows[k].Year = 0
                  /\ pub_hdf[i].rows[k].Month = 1
                  /\ pub_hdf[i].rows[k].Day = 1

\* The publication partition is written of a shard that holds an entry
\* without History, one with a History without PubMedPubDate, and no other.
C23_Witness ==
    /\ pc = "save_paa" /\ ifile = 0
    /\ pub_hdf[0].exists
    /\ Undated(xmlfiles[0]) = 1..Len(xmlfiles[0])
    /\ \E k, m \in 1..Len(xmlfiles[0]) :
          ~xmlfiles[0][k].PubDate.History /\ xmlfiles[0][m].PubDate.History

(***************************************************************************)
(* Properties of a second run and of the order of the partitions (Spec).    *)
(***************************************************************************)
\* C24: a call without rewrite_existing over a fully processed shard set, made
\* after a call that has extracted every shard and has written the year index
\* file, leaves that file as it was: the mapping it writes at its end is the
\* mapping the file held.
C24_RerunKeepsYearIndex ==
    [][(/\ FullyProcessed /\ ~rewrite_existing
        /\ prevExtracted = ShardIdx /\ skipped = ShardIdx
        /\ pub2year_json.exists
        /\ pc \in Running /\ pc' = "done") =>
            /\ pub2year_json'.exists
            /\ pub2year_json'.rows = pub2year_json.rows
      ]_vars

\* C25: the four partitions of a shard are written publication first, then
\* authorship, field-tag and citation.  From an empty output directory and
\* wherever calls are interrupted, a partition of index i is there only if
\* the ones before it in that order are: whenever the authorship, the
\* field-tag or the citation partition of i exists, its publication partition
\* exists.  (The converse fails in the states of the witness.)
C25_PublicationFirst ==
    \A i \in ShardIdx :
        /\ pub2ref_hdf[i].exists => pub2field_hdf[i].exists
        /\ pub2field_hdf[i].exists => paa_hdf[i].exists
        /\ paa_hdf[i].exists => pub_hdf[i].exists

\* A call was killed between the publication and the authorship partition of
\* a shard: the first is there, the other three are not.
C25_Witness ==
    /\ pc = "killed" /\ inflight \in ShardIdx
    /\ pub_hdf[inflight].exists
    /\ ~paa_hdf[inflight].exists
    /\ ~pub2field_hdf[inflight].exists /\ ~pub2ref_hdf[inflight].exists

(***************************************************************************)
(* Properties of parse_references with preprocess = True (SpecRefs).        *)
(***************************************************************************)
\* C26: the shard at position k of the sorted input list is written to the
\* citation partition of index k, and the index counter advances after a
\* shard is processed as well as after a shard is skipped; hence no two
\* shards write the same citation partition.
C26_ShardKWritesPartitionK ==
    [][/\ (pc = "refs_save" /\ pc' = "refs_loop") =>
              /\ ifile = xml_file_name
              /\ ifile' = ifile + 1
       /\ (pc = "refs_loop" /\ pc' = "refs_loop") => ifile' = ifile + 1
      ]_vars

====
